---- MODULE Spec2Model ----
(***************************************************************************)
(* Email dispatch and tracking pipeline of oauth-email-connector:          *)
(*   POST /email/send  -> EmailService.sendEmailWithTracking -> Email.save *)
(*   GET  /tracking/pixel/:trackingId/:recipient                           *)
(*   GET  /tracking/click/:trackingId/:url/:recipient                      *)
(* Strings that the code inspects character by character (addresses, IP    *)
(* addresses, URLs) are sequences of one-character strings, so that the    *)
(* regular expressions of the validators are computed, not assumed.        *)
(***************************************************************************)
EXTENDS Integers, Sequences, FiniteSets, Bags, TLC

----------------------------------------------------------------------------
(* Bounds of the model *)

MaxSends == 1
MaxHits == 2
MaxTime == 10
TickStep == 5
MaxCallbacks == 2
MaxConnections == 2

(* Program constants *)

TRACKING_COOLDOWN_SECONDS == 10
TRACKING_RATE_MAX == 200

----------------------------------------------------------------------------
(* Sample inputs *)

Users == {"u1"}
(* every registered user; "u2" takes part where two owners are needed *)
Accounts == Users \cup {"u2"}
(* a caller without a valid token *)
Anonymous == "anonymous"
Tokens == {"t1"}

A1 == <<"a", "@", "x", ".", "c", "o">>
A2 == <<"B", "@", "x", ".", "c", "o">>
APlus == <<"a", "+", "b", "@", "x", ".", "c", "o">>
Bad == <<"b", "o", "b">>

NoId == 0
NoCount == 0 - 1
NoText == "none"
NoUrl == << >>
PNG == "png1x1"

UrlAbs == <<"h", "t", "t", "p", ":", "/", "/", "x", ".", "c", "o">>
UrlRel == <<"x", ".", "c", "o">>
Urls == {UrlAbs, UrlRel}

(* Message content is a sequence of segments: literal text, a URL-shaped
   substring, a click-tracking URL, or the <img> element of the open beacon *)
Segment(kind, text, tid, url, rcpt) ==
    [kind |-> kind, text |-> text, trackingId |-> tid, url |-> url,
     recipient |-> rcpt]

Text(t) == Segment("text", t, NoId, NoUrl, << >>)

Link(u) == Segment("url", "", NoId, u, << >>)

NoHtml == << >>
HtmlWithBody == <<Text("<body>"), Text("hi"), Text("</body>")>>
HtmlNoBody == <<Text("hi")>>

BaseRequest ==
    [to |-> <<A1, A2>>, cc |-> << >>, bcc |-> << >>, subject |-> "hello",
     body |-> <<Text("text")>>, htmlBody |-> NoHtml, provider |-> "gmail"]

SendRequests ==
    {BaseRequest,
     [BaseRequest EXCEPT !.provider = "outlook"],
     [BaseRequest EXCEPT !.to = <<A1>>, !.cc = <<A2>>, !.bcc = <<A1>>],
     [BaseRequest EXCEPT !.to = <<APlus>>],
     [BaseRequest EXCEPT !.to = << >>],
     [BaseRequest EXCEPT !.to = <<A1, Bad>>],
     [BaseRequest EXCEPT !.cc = <<Bad>>],
     [BaseRequest EXCEPT !.bcc = <<Bad>>],
     [BaseRequest EXCEPT !.subject = ""],
     [BaseRequest EXCEPT !.body = << >>],
     [BaseRequest EXCEPT !.to = <<A1>>, !.body = <<Text("see"), Link(UrlAbs)>>,
                         !.htmlBody = HtmlWithBody],
     [BaseRequest EXCEPT !.to = <<A1>>, !.htmlBody = HtmlNoBody],
     [BaseRequest EXCEPT !.provider = "yahoo"]}

IpV4 == <<"1", "0", ".", "0", ".", "0", ".", "1">>
IpLoopback6 == <<":", ":", "1">>
Ips == {IpV4, IpLoopback6}

HitRecipients == {A1, Bad}

----------------------------------------------------------------------------
(* Character classes and the validators' regular expressions *)

Digits == {"0", "1", "2", "3", "4", "5", "6", "7", "8", "9"}
HexLetters == {"a", "b", "c", "d", "e", "f", "A", "B", "C", "D", "E", "F"}
Letters == {"a", "b", "c", "d", "e", "f", "h", "o", "p", "s", "t", "x",
            "A", "B", "C", "D", "E", "F"}
WordChars == Letters \cup Digits \cup {"_"}
Whitespace == {" "}

SubSeqFrom(s, i) == SubSeq(s, i, Len(s))

Positions(s, ch) == {i \in 1..Len(s) : s[i] = ch}

Max(S) == CHOOSE m \in S : \A n \in S : n <= m

(* /^[^\s@]+@[^\s@]+\.[^\s@]+$/ *)
RequestEmailRegex(s) ==
    /\ \A i \in 1..Len(s) : s[i] \notin Whitespace
    /\ Cardinality(Positions(s, "@")) = 1
    /\ LET k == CHOOSE i \in 1..Len(s) : s[i] = "@"
       IN /\ k > 1
          /\ \E j \in (k + 2)..(Len(s) - 1) : s[j] = "."

(* \w+([.-]?\w+)* *)
SeparatedWords(t) ==
    /\ Len(t) > 0
    /\ \A i \in 1..Len(t) : t[i] \in WordChars \cup {".", "-"}
    /\ t[1] \in WordChars
    /\ t[Len(t)] \in WordChars
    /\ \A i \in 1..(Len(t) - 1) : t[i] \in WordChars \/ t[i + 1] \in WordChars

(* /^\w+([.-]?\w+)*@\w+([.-]?\w+)*(\.\w{2,3})+$/ *)
SchemaEmailRegex(s) ==
    /\ Cardinality(Positions(s, "@")) = 1
    /\ LET k == CHOOSE i \in 1..Len(s) : s[i] = "@"
           local == SubSeq(s, 1, k - 1)
           domain == SubSeqFrom(s, k + 1)
       IN /\ SeparatedWords(local)
          /\ Positions(domain, ".") # {}
          /\ LET d == Max(Positions(domain, "."))
                 tld == SubSeqFrom(domain, d + 1)
             IN /\ Len(tld) \in {2, 3}
                /\ \A i \in 1..Len(tld) : tld[i] \in WordChars
                /\ SeparatedWords(SubSeq(domain, 1, d - 1))

ToLowerChar(c) ==
    CASE c = "A" -> "a" [] c = "B" -> "b" [] c = "C" -> "c"
      [] c = "D" -> "d" [] c = "E" -> "e" [] c = "F" -> "f"
      [] OTHER -> c

RECURSIVE Trim(_)
Trim(s) ==
    IF Len(s) = 0 THEN s
    ELSE IF s[1] \in Whitespace THEN Trim(Tail(s))
    ELSE IF s[Len(s)] \in Whitespace THEN Trim(SubSeq(s, 1, Len(s) - 1))
    ELSE s

(* email.toLowerCase().trim() *)
NormalizeAddress(s) == Trim([i \in 1..Len(s) |-> ToLowerChar(s[i])])

NormalizeList(l) == [i \in 1..Len(l) |-> NormalizeAddress(l[i])]

----------------------------------------------------------------------------
VARIABLES
    connectedProviders,  \* user -> sequence of OAuth connections (User.connectedProviders)
    emails,              \* the persisted SentMessage documents (collection "emails")
    events,              \* the persisted TrackingEvent rows, in insertion order
    now,                 \* the server clock, in seconds
    nextId,              \* the next ObjectId to be minted
    sends,               \* number of send requests accepted so far
    hits,                \* number of tracking requests served so far
    rateCount,           \* trackingRateLimit: requests counted per client IP
    req,                 \* the send request in flight (locals of POST /send)
    resp,                \* the HTTP response of the handler that finished last
    callbacks,           \* OAuth verify callbacks between User.findById and save
    tokenWrites          \* refreshed tokens that updateUserTokens has yet to write

vars == <<connectedProviders, emails, events, now, nextId, sends, hits,
          rateCount, req, resp, callbacks, tokenWrites>>

Idle == [pc |-> "idle"]

NoResponse == [kind |-> "none"]

Init ==
    /\ connectedProviders = [u \in Accounts |-> << >>]
    /\ emails = {}
    /\ events = << >>
    /\ now = 0
    /\ nextId = 1
    /\ sends = 0
    /\ hits = 0
    /\ rateCount = [ip \in Ips |-> 0]
    /\ req = Idle
    /\ resp = NoResponse
    /\ callbacks = EmptyBag
    /\ tokenWrites = {}

----------------------------------------------------------------------------
(* The clock *)

Tick ==
    /\ now + TickStep <= MaxTime
    /\ now' = now + TickStep
    /\ UNCHANGED <<connectedProviders, emails, events, nextId, sends, hits,
                   rateCount, req, resp, callbacks, tokenWrites>>

----------------------------------------------------------------------------
(* OAuth connect callback (GoogleStrategy / MicrosoftStrategy verify) *)

HasConnection(conns, p) == \E i \in 1..Len(conns) : conns[i].provider = p

(* Array.prototype.findIndex: the first index whose provider is p, 0 if none *)
FindIndex(conns, p) ==
    IF HasConnection(conns, p)
    THEN CHOOSE i \in 1..Len(conns) :
            /\ conns[i].provider = p
            /\ \A j \in 1..(i - 1) : conns[j].provider # p
    ELSE 0

NewConnection(p, tok) ==
    [provider |-> p, accessToken |-> tok, refreshToken |-> tok]

ConnectedAfterCallback(conns, p, tok) ==
    IF ~HasConnection(conns, p)
    THEN Append(conns, NewConnection(p, tok))
    ELSE [conns EXCEPT ![FindIndex(conns, p)] =
              [@ EXCEPT !.accessToken = tok, !.refreshToken = tok]]

ConnectProvider(u, p, tok) ==
    /\ connectedProviders' =
          [connectedProviders EXCEPT ![u] = ConnectedAfterCallback(@, p, tok)]
    /\ UNCHANGED <<emails, events, now, nextId, sends, hits, rateCount, req,
                   resp, callbacks, tokenWrites>>

(* MongoDB $set of "connectedProviders.<i>.accessToken": the element at the
   position is updated; an array that is too short is padded and the element
   is created with the fields of the update only *)
NullConnection == [provider |-> "none", accessToken |-> "", refreshToken |-> ""]

PadTo(conns, i) ==
    [k \in 1..(IF i > Len(conns) THEN i ELSE Len(conns)) |->
        IF k <= Len(conns) THEN conns[k] ELSE NullConnection]

(* Handlers that load the user document and save() it later run beside
   other requests.  save() sends $push for a pushed element (it increments
   the document version and is never refused), a positional $set for the
   fields of an existing element (it is refused with a VersionError when the
   version has changed since the load), and a $set of the whole array for an
   array that was replaced (refused likewise, and it increments the version).
   User.findByIdAndUpdate neither checks nor increments the version.  Each
   handler in flight carries "stale": the version has changed since its load. *)

(* what the verify callback keeps of the loaded document: the position of the
   connection of its provider, 0 when there is none *)
LoadedCallback(u, p, tok, doc) ==
    [kind |-> "connect", user |-> u, provider |-> p, token |-> tok,
     index |-> FindIndex(doc, p), stale |-> FALSE, doc |-> << >>]

(* the version of the document of u is incremented: every handler in flight
   that holds that document is stale from now on *)
StaleOf(e, u) == IF e.user = u THEN [e EXCEPT !.stale = TRUE] ELSE e

MarkStale(B, u) ==
    LET marked == {StaleOf(e, u) : e \in BagToSet(B)}
        Count(x, e) == IF BagIn(e, B) /\ StaleOf(e, u) = x THEN B[e] ELSE 0
    IN [x \in marked |->
           Count(x, x) + (IF x.stale THEN Count(x, [x EXCEPT !.stale = FALSE])
                          ELSE 0)]

VerifyLoad(u, p, tok) ==
    /\ BagCardinality(callbacks) < MaxCallbacks
    /\ callbacks' = callbacks (+)
                       SetToBag({LoadedCallback(u, p, tok, connectedProviders[u])})
    /\ UNCHANGED <<connectedProviders, emails, events, now, nextId, sends,
                   hits, rateCount, req, resp, tokenWrites>>

SetConnectionTokens(conns, i, tok) ==
    [PadTo(conns, i) EXCEPT ![i].accessToken = tok, ![i].refreshToken = tok]

SavedAfterCallback(stored, cb) ==
    IF cb.index = 0
    THEN Append(stored, NewConnection(cb.provider, cb.token))
    ELSE IF cb.stale THEN stored
    ELSE SetConnectionTokens(stored, cb.index, cb.token)

VerifySave(cb) ==
    /\ BagIn(cb, callbacks)
    /\ cb.kind = "connect"
    /\ LET saved == SavedAfterCallback(connectedProviders[cb.user], cb)
       IN /\ Len(saved) <= MaxConnections
          /\ connectedProviders' = [connectedProviders EXCEPT ![cb.user] = saved]
    /\ callbacks' = IF cb.index = 0
                    THEN MarkStale(callbacks (-) SetToBag({cb}), cb.user)
                    ELSE callbacks (-) SetToBag({cb})
    /\ UNCHANGED <<emails, events, now, nextId, sends, hits, rateCount, req,
                   resp, tokenWrites>>

(* DELETE /auth/disconnect/:provider *)
WithoutProvider(conns, p) == SelectSeq(conns, LAMBDA c : c.provider # p)

DisconnectResponse(p, status, error) ==
    [kind |-> "disconnect", provider |-> p, status |-> status, error |-> error]

(* provider !== "google" && provider !== "microsoft" *)
DisconnectInvalid(u, p) ==
    /\ p \notin {"google", "microsoft"}
    /\ resp' = DisconnectResponse(p, 400, "Invalid provider")
    /\ UNCHANGED <<connectedProviders, emails, events, now, nextId, sends,
                   hits, rateCount, req, callbacks, tokenWrites>>

(* requireAuth has loaded the user; the handler has filtered the array of
   the loaded document; index = 0: the filter removed nothing and the array
   is not marked modified *)
LoadedDisconnect(u, p, doc) ==
    [kind |-> "disconnect", user |-> u, provider |-> p, token |-> NoText,
     index |-> FindIndex(doc, p), stale |-> FALSE,
     doc |-> WithoutProvider(doc, p)]

DisconnectLoad(u, p) ==
    /\ p \in {"google", "microsoft"}
    /\ BagCardinality(callbacks) < MaxCallbacks
    /\ callbacks' = callbacks (+)
                       SetToBag({LoadedDisconnect(u, p, connectedProviders[u])})
    /\ UNCHANGED <<connectedProviders, emails, events, now, nextId, sends,
                   hits, rateCount, req, resp, tokenWrites>>

(* what user.save() leaves in the store *)
StoredAfterDisconnect(stored, d) ==
    IF d.index = 0 \/ d.stale THEN stored ELSE d.doc

(* await user.save(), and the answer *)
DisconnectSave(d) ==
    /\ BagIn(d, callbacks)
    /\ d.kind = "disconnect"
    /\ connectedProviders' =
          [connectedProviders EXCEPT ![d.user] = StoredAfterDisconnect(@, d)]
    /\ callbacks' = IF d.index = 0 \/ d.stale
                    THEN callbacks (-) SetToBag({d})
                    ELSE MarkStale(callbacks (-) SetToBag({d}), d.user)
    /\ resp' = IF d.index # 0 /\ d.stale
               THEN DisconnectResponse(d.provider, 500, "VersionError")
               ELSE DisconnectResponse(d.provider, 200, NoText)
    /\ UNCHANGED <<emails, events, now, nextId, sends, hits, rateCount, req,
                   tokenWrites>>

(* the request when nothing runs between its load and its save *)
Disconnect(u, p) ==
    /\ p \in {"google", "microsoft"}
    /\ connectedProviders' =
          [connectedProviders EXCEPT ![u] = WithoutProvider(@, p)]
    /\ callbacks' = IF FindIndex(connectedProviders[u], p) = 0 THEN callbacks
                    ELSE MarkStale(callbacks, u)
    /\ resp' = DisconnectResponse(p, 200, NoText)
    /\ UNCHANGED <<emails, events, now, nextId, sends, hits, rateCount, req,
                   tokenWrites>>

----------------------------------------------------------------------------
(* POST /email/send: validateEmailSend *)

AllMatch(l, Regex(_)) == \A i \in 1..Len(l) : Regex(l[i])

validateNothing(r) == TRUE

validateEmailSend(r) ==
    /\ Len(r.to) >= 1
    /\ AllMatch(r.to, RequestEmailRegex)
    /\ AllMatch(r.cc, RequestEmailRegex)
    /\ AllMatch(r.bcc, RequestEmailRegex)
    /\ r.subject # ""
    /\ r.body # << >>
    /\ r.provider \in {"gmail", "outlook"}

(* handleValidationErrors answers 400 and the route handler never runs *)
SendRejected(r) ==
    /\ ~validateEmailSend(r)
    /\ resp' = [kind |-> "send", status |-> 400, error |-> "Validation failed",
                emailId |-> NoId, trackingId |-> NoId, sentCount |-> NoCount]
    /\ UNCHANGED <<connectedProviders, emails, events, now, nextId, sends,
                   hits, rateCount, req, callbacks, tokenWrites>>

(* requireAuth loads the user document; the handler mints the trackingId and
   enters the per-recipient loop of sendEmailWithTracking *)
StartSendWithin(u, r, limit) ==
    /\ req.pc = "idle"
    /\ sends < limit
    /\ validateEmailSend(r)
    /\ req' = [pc |-> "loop", user |-> u, userDoc |-> connectedProviders[u],
               data |-> r, trackingId |-> nextId, i |-> 1, sentCount |-> 0,
               messageIds |-> << >>, attempts |-> << >>]
    /\ nextId' = nextId + 1
    /\ sends' = sends + 1
    /\ UNCHANGED <<connectedProviders, emails, events, now, hits, rateCount,
                   resp, callbacks, tokenWrites>>

StartSend(u, r) == StartSendWithin(u, r, MaxSends)

----------------------------------------------------------------------------
(* EmailService: provider transports *)

(* allRecipients = [...to, ...cc, ...bcc] *)
toRecipientsOnly(d) == d.to

allRecipients(d) == d.to \o d.cc \o d.bcc

FindConnection(conns, p) == conns[FindIndex(conns, p)]

(* an outcome of a transport: "token" is the access token presented to the
   provider, "refreshed" the access token of the "tokens" event, if any *)
Failure(msg, api) ==
    [ok |-> FALSE, messageId |-> NoText, msg |-> msg, api |-> api,
     token |-> NoText, refreshed |-> NoText]

Success(id, api) ==
    [ok |-> TRUE, messageId |-> id, msg |-> NoText, api |-> api,
     token |-> NoText, refreshed |-> NoText]

(* the access token that the provider issues on a refresh *)
RefreshedToken == "t2"

(* the outcomes of sendGmailEmail for one message; "api" tells whether
   gmail.users.messages.send was called and what the provider answered *)
sendGmailEmail(userDoc, tid, i, expired) ==
    IF ~HasConnection(userDoc, "google")
    THEN {Failure("Failed to send Gmail email: No Google account connected", "none")}
    ELSE IF FindConnection(userDoc, "google").accessToken = ""
    THEN {Failure("Failed to send Gmail email: No access token available for Google account", "none")}
    ELSE LET tok == FindConnection(userDoc, "google").accessToken
         IN IF expired
            THEN {[Success(<<"gmail", tid, i>>, "accepted")
                      EXCEPT !.token = tok, !.refreshed = RefreshedToken]}
            ELSE {[Success(<<"gmail", tid, i>>, "accepted") EXCEPT !.token = tok],
                  [Failure("Gmail authentication expired. Please reconnect your Google account in Settings.", "rejected")
                      EXCEPT !.token = tok],
                  [Failure("Failed to send Gmail email: network", "rejected")
                      EXCEPT !.token = tok]}

(* sendOutlookEmail builds the message and returns a synthesized id: the
   source holds no call of the provider's send-mail API *)
sendOutlookEmail(userDoc, tid, i) ==
    IF ~HasConnection(userDoc, "microsoft")
    THEN {Failure("Failed to send Outlook email: No Microsoft account connected", "none")}
    ELSE IF FindConnection(userDoc, "microsoft").accessToken = ""
    THEN {Failure("Failed to send Outlook email: No access token available for Microsoft account", "none")}
    ELSE {Success(<<"outlook", tid, i>>, "none")}

TransportOutcomes(provider, userDoc, tid, i, expired) ==
    IF provider = "gmail" THEN sendGmailEmail(userDoc, tid, i, expired)
    ELSE sendOutlookEmail(userDoc, tid, i)

(* EmailService.updateUserTokens: the index is looked up in the user document
   of the request, the update is applied to the stored document *)
TokenWrite(u, userDoc, provider, tok) ==
    [user |-> u, index |-> FindIndex(userDoc, provider), accessToken |-> tok]

ApplyTokenWrite(conns, w) ==
    IF w.index = 0 THEN conns
    ELSE [PadTo(conns, w.index) EXCEPT ![w.index].accessToken = w.accessToken]

(* User.findByIdAndUpdate of a "tokens" listener that nobody awaited *)
updateUserTokens(w) ==
    /\ w \in tokenWrites
    /\ Len(ApplyTokenWrite(connectedProviders[w.user], w)) <= MaxConnections
    /\ connectedProviders' =
          [connectedProviders EXCEPT ![w.user] = ApplyTokenWrite(@, w)]
    /\ tokenWrites' = tokenWrites \ {w}
    /\ UNCHANGED <<emails, events, now, nextId, sends, hits, rateCount, req,
                   resp, callbacks>>

----------------------------------------------------------------------------
(* EmailService: per-recipient content *)

EncodeChar(c) ==
    CASE c = "@" -> <<"%", "4", "0">>
      [] c = "+" -> <<"%", "2", "B">>
      [] c = ":" -> <<"%", "3", "A">>
      [] c = "/" -> <<"%", "2", "F">>
      [] c = " " -> <<"%", "2", "0">>
      [] OTHER -> <<c>>

RECURSIVE encodeURIComponent(_)
encodeURIComponent(s) ==
    IF Len(s) = 0 THEN << >>
    ELSE EncodeChar(s[1]) \o encodeURIComponent(Tail(s))

HasPrefix(s, p) == Len(s) >= Len(p) /\ SubSeq(s, 1, Len(p)) = p

(* /https?:\/\/[^\s<>"]+/gi on a URL-shaped substring *)
UrlRegex(u) ==
    LET l == [k \in 1..Len(u) |-> ToLowerChar(u[k])]
    IN \/ HasPrefix(l, <<"h", "t", "t", "p", ":", "/", "/">>) /\ Len(l) > 7
       \/ HasPrefix(l, <<"h", "t", "t", "p", "s", ":", "/", "/">>) /\ Len(l) > 8

(* APP_URL/api/tracking/click/<trackingId>/<url>/<recipient> *)
TrackingUrl(tid, url, rcpt) ==
    Segment("click", "", tid, encodeURIComponent(url), encodeURIComponent(rcpt))

(* <img src="APP_URL/api/tracking/pixel/<trackingId>/<recipient>" ... /> *)
TrackingPixel(tid, rcpt) ==
    Segment("pixel", "", tid, NoUrl, encodeURIComponent(rcpt))

addClickTrackingForRecipient(content, tid, rcpt) ==
    [k \in 1..Len(content) |->
        IF content[k].kind = "url" /\ UrlRegex(content[k].url)
        THEN TrackingUrl(tid, content[k].url, rcpt)
        ELSE content[k]]

(* content.includes("</body>") ? content.replace("</body>", pixel + "</body>")
                               : content + pixel *)
addEmailTrackingForRecipient(content, tid, rcpt, isHtml) ==
    LET closing == {k \in 1..Len(content) : content[k] = Text("</body>")}
    IN IF ~isHtml THEN content
       ELSE IF closing # {}
       THEN LET k == CHOOSE i \in closing : \A j \in closing : i <= j
            IN SubSeq(content, 1, k - 1) \o <<TrackingPixel(tid, rcpt)>>
                  \o SubSeqFrom(content, k)
       ELSE Append(content, TrackingPixel(tid, rcpt))

(* the wrapper that processEmailWithRecipientTracking builds around the
   rewritten plain text *)
HtmlWrapper(processedBody, tid, rcpt) ==
    <<Text("<html>"), Text("<body>"), Text("<pre>")>> \o processedBody
        \o <<Text("</pre>"), TrackingPixel(tid, rcpt), Text("</body>"),
             Text("</html>")>>

(* emailData.htmlBody is not read *)
processEmailWithRecipientTracking(emailData, tid, rcpt) ==
    LET processedBody == addClickTrackingForRecipient(emailData.body, tid, rcpt)
    IN [body |-> processedBody,
        htmlBody |-> HtmlWrapper(processedBody, tid, rcpt)]

(* individualEmailData: the spread of emailData is overridden by to, cc, bcc *)
SharedEmailData(emailData, tid, rcpt) ==
    [to |-> emailData.to, cc |-> emailData.cc, bcc |-> emailData.bcc,
     subject |-> emailData.subject,
     body |-> processEmailWithRecipientTracking(emailData, tid, rcpt).body,
     htmlBody |-> processEmailWithRecipientTracking(emailData, tid, rcpt).htmlBody]

IndividualEmailData(emailData, tid, rcpt) ==
    [to |-> <<rcpt>>, cc |-> << >>, bcc |-> << >>, subject |-> emailData.subject,
     body |-> processEmailWithRecipientTracking(emailData, tid, rcpt).body,
     htmlBody |-> processEmailWithRecipientTracking(emailData, tid, rcpt).htmlBody]

(* sentCount++ is reached only when the transport returned *)
SentCountAlways(sentCount, ok) == sentCount + 1

SentCountAfter(sentCount, ok) == IF ok THEN sentCount + 1 ELSE sentCount

(* the catch block is inside the for loop: the loop goes on to the next entry *)
NextIndexAbortOnFailure(i, n, ok) == IF ok THEN i + 1 ELSE n + 1

NextIndex(i, n, ok) == i + 1

(* the "tokens" listener of sendGmailEmail is async and the emitter does not
   await it: its write may be done when the send returns, or still pending *)
(* one iteration of the loop of sendEmailWithTracking; "expired" tells
   whether the provider takes the presented access token for expired *)
SendRecipient(expired) ==
    /\ req.pc = "loop"
    /\ req.i <= Len(allRecipients(req.data))
    /\ \E o \in TransportOutcomes(req.data.provider, req.userDoc,
                                  req.trackingId, req.i, expired) :
       /\ IF o.refreshed = NoText
          THEN UNCHANGED <<connectedProviders, tokenWrites>>
          ELSE \E written \in BOOLEAN :
                  LET w == TokenWrite(req.user, req.userDoc, "google", o.refreshed)
                  IN IF written
                     THEN /\ Len(ApplyTokenWrite(connectedProviders[req.user], w))
                                <= MaxConnections
                          /\ connectedProviders' =
                                [connectedProviders EXCEPT
                                    ![req.user] = ApplyTokenWrite(@, w)]
                          /\ tokenWrites' = tokenWrites
                     ELSE /\ connectedProviders' = connectedProviders
                          /\ tokenWrites' = tokenWrites \cup {w}
       /\ req' = [req EXCEPT
                    !.attempts = Append(@, [recipient |-> allRecipients(req.data)[req.i],
                                            at |-> now, ok |-> o.ok, msg |-> o.msg, api |-> o.api,
                                            messageId |-> o.messageId,
                                            token |-> o.token,
                                            refreshed |-> o.refreshed,
                                            content |-> IndividualEmailData(req.data, req.trackingId,
                                                            allRecipients(req.data)[req.i])]),
                    !.messageIds = IF o.ok THEN Append(@, o.messageId) ELSE @,
                    !.sentCount = SentCountAfter(@, o.ok),
                    !.i = NextIndex(@, Len(allRecipients(req.data)), o.ok)]
    /\ UNCHANGED <<emails, events, now, nextId, sends, hits, rateCount,
                   resp, callbacks>>

----------------------------------------------------------------------------
(* POST /email/send after the loop: build the Email document, save, answer *)

BulkSendId(t) == <<"bulk_send", t>>

(* messageIds[0] || "bulk_send_" + Date.now() *)
ResultMessageId(messageIds, t) ==
    IF Len(messageIds) > 0 THEN messageIds[1] ELSE BulkSendId(t)

(* status = sentCount > 0 ? "sent" : "failed" *)
StatusOf(sentCount) == IF sentCount > 0 THEN "sent" ELSE "failed"

(* "error" is assigned only in the catch around sendEmailWithTracking, which
   catches every per-recipient error itself and never throws *)
RouteErrorFirstFailure(attempts) ==
    IF \E i \in 1..Len(attempts) : ~attempts[i].ok
    THEN attempts[CHOOSE i \in 1..Len(attempts) :
                     /\ ~attempts[i].ok
                     /\ \A j \in 1..(i - 1) : attempts[j].ok].msg
    ELSE NoText

RouteError(attempts) == NoText

(* sendTimestamp: new Date(), evaluated when the document is built *)
firstSendTime(attempts, t) == IF Len(attempts) > 0 THEN attempts[1].at ELSE t

sendTimestampOf(attempts, t) == t

NewEmailFreshTracking(r, t) ==
    [id |-> nextId, userId |-> r.user, messageId |-> ResultMessageId(r.messageIds, t),
     subject |-> r.data.subject, to |-> r.data.to, cc |-> r.data.cc,
     bcc |-> r.data.bcc, body |-> r.data.body, htmlBody |-> r.data.htmlBody,
     sendTimestamp |-> t, status |-> StatusOf(r.sentCount),
     provider |-> r.data.provider, trackingId |-> nextId + 1,
     error |-> RouteError(r.attempts)]

NewEmail(r, t) ==
    [id |-> nextId, userId |-> r.user, messageId |-> ResultMessageId(r.messageIds, t),
     subject |-> r.data.subject, to |-> r.data.to, cc |-> r.data.cc,
     bcc |-> r.data.bcc, body |-> r.data.body, htmlBody |-> r.data.htmlBody,
     sendTimestamp |-> sendTimestampOf(r.attempts, t),
     status |-> StatusOf(r.sentCount),
     provider |-> r.data.provider, trackingId |-> r.trackingId,
     error |-> RouteError(r.attempts)]

(* EmailSchema validators, and the unique index on trackingId *)
EmailSchemaValid(doc, stored) ==
    /\ doc.subject # ""
    /\ doc.body # << >>
    /\ Len(doc.to) > 0
    /\ AllMatch(doc.to, SchemaEmailRegex)
    /\ AllMatch(doc.cc, SchemaEmailRegex)
    /\ AllMatch(doc.bcc, SchemaEmailRegex)
    /\ doc.status \in {"sent", "failed", "draft"}
    /\ doc.provider \in {"gmail", "outlook"}
    /\ doc.trackingId # NoId
    /\ \A e \in stored : e.trackingId # doc.trackingId

(* EmailSchema.pre("save") *)
PreSave(doc) ==
    [doc EXCEPT !.to = NormalizeList(@), !.cc = NormalizeList(@),
                !.bcc = NormalizeList(@)]

SendResponse(doc, sentCount) ==
    IF doc.status = "sent"
    THEN [kind |-> "send", status |-> 200, error |-> NoText,
          emailId |-> doc.id, trackingId |-> doc.trackingId,
          sentCount |-> sentCount]
    ELSE [kind |-> "send", status |-> 500,
          error |-> IF doc.error # NoText THEN doc.error ELSE "Failed to send email",
          emailId |-> doc.id, trackingId |-> doc.trackingId,
          sentCount |-> sentCount]

(* a rejected save leaves the handler through asyncHandler's catch and is
   answered by the global error handler of index.ts *)
ErrorHandlerResponse(kind, msg) ==
    [kind |-> kind, status |-> 500, error |-> msg, emailId |-> NoId,
     trackingId |-> NoId, sentCount |-> NoCount]

PersistAndRespond ==
    /\ req.pc = "loop"
    /\ req.i > Len(allRecipients(req.data))
    /\ LET doc == NewEmail(req, now)
       IN IF EmailSchemaValid(doc, emails)
          THEN /\ emails' = emails \cup {PreSave(doc)}
               /\ resp' = SendResponse(doc, req.sentCount)
          ELSE /\ emails' = emails
               /\ resp' = ErrorHandlerResponse("send", "Email validation failed")
    /\ nextId' = nextId + 1
    /\ req' = Idle
    /\ UNCHANGED <<connectedProviders, events, now, sends, hits, rateCount,
                   callbacks, tokenWrites>>

----------------------------------------------------------------------------
(* Tracking: rate limiter, cooldown, TrackingEvent schema *)

Min2(a, b) == IF a < b THEN a ELSE b

(* express-rate-limit counts the request, then refuses it when the count
   exceeds max; counts above max + 1 are not told apart *)
CountAfterHit(c) == Min2(c + 1, TRACKING_RATE_MAX + 1)

RateLimited(c) == CountAfterHit(c) > TRACKING_RATE_MAX

(* checkTrackingCooldown(sentTimestamp).isActive, in milliseconds *)
CooldownOff(sentTimestamp, t) == FALSE

CooldownActive(sentTimestamp, t) ==
    (t - sentTimestamp) * 1000 < TRACKING_COOLDOWN_SECONDS * 1000

DigitSeq == <<"0", "1", "2", "3", "4", "5", "6", "7", "8", "9">>

DigitVal(c) == (CHOOSE i \in 1..10 : DigitSeq[i] = c) - 1

RECURSIVE SplitOn(_, _)
SplitOn(s, ch) ==
    IF Positions(s, ch) = {} THEN <<s>>
    ELSE LET k == CHOOSE i \in Positions(s, ch) : \A j \in Positions(s, ch) : i <= j
         IN <<SubSeq(s, 1, k - 1)>> \o SplitOn(SubSeqFrom(s, k + 1), ch)

(* 25[0-5]|2[0-4][0-9]|[01]?[0-9][0-9]? *)
OctetRegex(p) ==
    /\ Len(p) \in 1..3
    /\ \A i \in 1..Len(p) : p[i] \in Digits
    /\ Len(p) = 3 =>
          \/ p[1] \in {"0", "1"}
          \/ p[1] = "2" /\ DigitVal(p[2]) <= 4
          \/ p[1] = "2" /\ p[2] = "5" /\ DigitVal(p[3]) <= 5

Ipv4Regex(ip) ==
    LET parts == SplitOn(ip, ".")
    IN Len(parts) = 4 /\ \A i \in 1..4 : OctetRegex(parts[i])

(* /^(?:[0-9a-fA-F]{1,4}:){7}[0-9a-fA-F]{1,4}$/ *)
Ipv6Regex(ip) ==
    LET parts == SplitOn(ip, ":")
    IN /\ Len(parts) = 8
       /\ \A i \in 1..8 : /\ Len(parts[i]) \in 1..4
                          /\ \A j \in 1..Len(parts[i]) :
                                parts[i][j] \in Digits \cup HexLetters

IpValidator(ip) == Len(ip) = 0 \/ Ipv4Regex(ip) \/ Ipv6Regex(ip)

RECURSIVE DropSlashes(_)
DropSlashes(s) ==
    IF Len(s) > 0 /\ s[1] = "/" THEN DropSlashes(Tail(s)) ELSE s

(* new URL(url) succeeds: a scheme, and a host when the scheme is http(s) *)
UrlParses(u) ==
    /\ Positions(u, ":") # {}
    /\ LET k == CHOOSE i \in Positions(u, ":") : \A j \in Positions(u, ":") : i <= j
           scheme == SubSeq(u, 1, k - 1)
       IN /\ k > 1
          /\ u[1] \in Letters
          /\ \A i \in 1..(k - 1) : u[i] \in Letters \cup Digits \cup {"+", "-", "."}
          /\ scheme \in {<<"h", "t", "t", "p">>, <<"h", "t", "t", "p", "s">>}
                => Len(DropSlashes(SubSeqFrom(u, k + 1))) > 0

UrlValidator(u) == Len(u) = 0 \/ UrlParses(u)

RecipientValidator(e) == Len(e) = 0 \/ RequestEmailRegex(e)

TrackingEvent(email, type, tid, rcpt, url, ip, t) ==
    [trackingId |-> tid, emailId |-> email.id, eventType |-> type,
     timestamp |-> t, ipAddress |-> ip, clickedUrl |-> url,
     recipientEmail |-> rcpt]

(* EmailTrackingSchema validators *)
TrackingSchemaValid(row) ==
    /\ row.trackingId # NoId
    /\ row.emailId # NoId
    /\ row.eventType \in {"open", "click", "reply", "forward"}
    /\ IpValidator(row.ipAddress)
    /\ Len(row.clickedUrl) <= 2000
    /\ UrlValidator(row.clickedUrl)
    /\ RecipientValidator(row.recipientEmail)

(* Email.findOne({ trackingId }) *)
FindAnyEmail(stored, tid) == stored

FindByTrackingId(stored, tid) == {e \in stored : e.trackingId = tid}

HitResponse(kind, tid, rcpt, url, ip, status, body, location) ==
    [kind |-> kind, trackingId |-> tid, url |-> url, status |-> status,
     body |-> body, location |-> location, at |-> now]

PixelResponse(tid, rcpt, ip) ==
    HitResponse("pixel", tid, rcpt, NoUrl, ip, 200, PNG, NoUrl)

RedirectResponse(tid, rcpt, url, ip) ==
    HitResponse("click", tid, rcpt, url, ip, 302, NoText, url)

----------------------------------------------------------------------------
(* GET /tracking/pixel/:trackingId/:recipient *)

PixelHit(tid, rcpt, ip) ==
    /\ hits < MaxHits
    /\ hits' = hits + 1
    /\ rateCount' = [rateCount EXCEPT ![ip] = CountAfterHit(@)]
    /\ IF RateLimited(rateCount[ip])
       THEN /\ events' = events
            /\ resp' = HitResponse("pixel", tid, rcpt, NoUrl, ip, 429,
                                   "Rate limit exceeded", NoUrl)
       ELSE IF FindByTrackingId(emails, tid) = {}
       THEN /\ events' = events
            /\ resp' = PixelResponse(tid, rcpt, ip)
       ELSE LET email == CHOOSE e \in FindByTrackingId(emails, tid) : TRUE
                row == TrackingEvent(email, "open", tid, rcpt, NoUrl, ip, now)
            IN IF CooldownActive(email.sendTimestamp, now)
               THEN /\ events' = events
                    /\ resp' = PixelResponse(tid, rcpt, ip)
               ELSE IF TrackingSchemaValid(row)
               THEN /\ events' = Append(events, row)
                    /\ resp' = PixelResponse(tid, rcpt, ip)
               ELSE /\ events' = events
                    /\ resp' = HitResponse("pixel", tid, rcpt, NoUrl, ip, 500,
                                           "EmailTracking validation failed", NoUrl)
    /\ UNCHANGED <<connectedProviders, emails, now, nextId, sends, req,
                   callbacks, tokenWrites>>

(* GET /tracking/click/:trackingId/:url/:recipient *)

validateClickTracking(tid, url, rcpt) ==
    tid # NoId /\ Len(url) > 0 /\ Len(rcpt) > 0

ClickHit(tid, url, rcpt, ip) ==
    /\ hits < MaxHits
    /\ hits' = hits + 1
    /\ rateCount' = [rateCount EXCEPT ![ip] = CountAfterHit(@)]
    /\ IF RateLimited(rateCount[ip])
       THEN /\ events' = events
            /\ resp' = HitResponse("click", tid, rcpt, url, ip, 429,
                                   "Rate limit exceeded", NoUrl)
       ELSE IF ~validateClickTracking(tid, url, rcpt)
       THEN /\ events' = events
            /\ resp' = HitResponse("click", tid, rcpt, url, ip, 400,
                                   "Validation failed", NoUrl)
       ELSE IF FindByTrackingId(emails, tid) = {}
       THEN /\ events' = events
            /\ resp' = RedirectResponse(tid, rcpt, url, ip)
       ELSE LET email == CHOOSE e \in FindByTrackingId(emails, tid) : TRUE
                row == TrackingEvent(email, "click", tid, rcpt, url, ip, now)
            IN IF TrackingSchemaValid(row)
               THEN /\ events' = Append(events, row)
                    /\ resp' = RedirectResponse(tid, rcpt, url, ip)
               ELSE /\ events' = events
                    /\ resp' = HitResponse("click", tid, rcpt, url, ip, 500,
                                           "EmailTracking validation failed", NoUrl)
    /\ UNCHANGED <<connectedProviders, emails, now, nextId, sends, req,
                   callbacks, tokenWrites>>

(* A click request whose path lacks a segment matches no route and is
   answered by the catch-all of index.ts; a segment that cannot be
   percent-decoded makes the router raise an error of status 400 while it
   matches the route, which the global error handler answers.  Neither
   reaches the rate limiter or the handler. *)
MalformedPaths == {"missingSegment", "undecodable"}

MalformedClick(path) ==
    /\ resp' = IF path = "missingSegment"
               THEN [kind |-> "malformed", trackingId |-> NoId, url |-> NoUrl,
                     status |-> 404, body |-> "Route not found",
                     location |-> NoUrl]
               ELSE [kind |-> "malformed", trackingId |-> NoId, url |-> NoUrl,
                     status |-> 400, body |-> "Failed to decode param",
                     location |-> NoUrl]
    /\ UNCHANGED <<connectedProviders, emails, events, now, nextId, sends,
                   hits, rateCount, req, callbacks, tokenWrites>>

(* A client at one address requests the pixel of a trackingId that matches no
   Email until the limiter has counted TRACKING_RATE_MAX requests of the
   current window: each of these requests only raises the count and is
   answered with the pixel *)
TrackingFlood(ip, tid) ==
    /\ rateCount[ip] < TRACKING_RATE_MAX
    /\ FindByTrackingId(emails, tid) = {}
    /\ rateCount' = [rateCount EXCEPT ![ip] = TRACKING_RATE_MAX]
    /\ resp' = PixelResponse(tid, Bad, ip)
    /\ UNCHANGED <<connectedProviders, emails, events, now, nextId, sends,
                   hits, req, callbacks, tokenWrites>>

----------------------------------------------------------------------------
(* GET /tracking/analytics/:emailId/recipients *)

(* Email.findOne({ _id: emailId, userId: user._id }) *)
FindEmailById(stored, id, u) == {e \in stored : e.id = id}

FindOwnEmail(stored, id, u) == {e \in stored : e.id = id /\ e.userId = u}

(* EmailTracking.find({ emailId }) *)
EventsOfEmail(evs, id) == {k \in 1..Len(evs) : evs[k].emailId = id}

(* event.recipientEmail === recipientEmail *)
SameAddress(a, b) == a = b

(* one entry of recipientStats *)
RecipientStat(evs, id, addr) ==
    LET recipientEvents ==
            {k \in EventsOfEmail(evs, id) : SameAddress(evs[k].recipientEmail, addr)}
    IN [email |-> addr,
        openCount |-> Cardinality({k \in recipientEvents : evs[k].eventType = "open"}),
        clickCount |-> Cardinality({k \in recipientEvents : evs[k].eventType = "click"})]

RecipientAnalytics(u, id) ==
    /\ resp' = IF FindOwnEmail(emails, id, u) = {}
               THEN [kind |-> "analytics", status |-> 404, emailId |-> id,
                     recipients |-> << >>]
               ELSE LET email == CHOOSE e \in FindOwnEmail(emails, id, u) : TRUE
                        all == email.to \o email.cc \o email.bcc
                    IN [kind |-> "analytics", status |-> 200, emailId |-> id,
                        recipients |->
                            [k \in 1..Len(all) |-> RecipientStat(events, id, all[k])]]
    /\ UNCHANGED <<connectedProviders, emails, events, now, nextId, sends,
                   hits, rateCount, req, callbacks, tokenWrites>>

----------------------------------------------------------------------------
(* The routes on stored emails: GET /email, GET /email/:id, DELETE /email/:id,
   GET /tracking/analytics/:emailId *)

(* requireAuth: a request without a valid token of a stored user is refused *)
requireAuth(u) == u \in Accounts

(* validateObjectId: NoId stands for a parameter that is no ObjectId *)
validateObjectId(id) == id # NoId

Unauthorized(kind, u, id) ==
    [kind |-> kind, caller |-> u, emailId |-> id, status |-> 401,
     error |-> "No token, authorization denied", data |-> << >>]

InvalidId(kind, u, id) ==
    [kind |-> kind, caller |-> u, emailId |-> id, status |-> 400,
     error |-> "Validation failed", data |-> << >>]

EmailNotFound(kind, u, id) ==
    [kind |-> kind, caller |-> u, emailId |-> id, status |-> 404,
     error |-> "Email not found", data |-> << >>]

Found(kind, u, id, data) ==
    [kind |-> kind, caller |-> u, emailId |-> id, status |-> 200,
     error |-> NoText, data |-> data]

(* .sort({ sendTimestamp: -1 }) *)
RECURSIVE NewestFirst(_)
NewestFirst(S) ==
    IF S = {} THEN << >>
    ELSE LET e == CHOOSE x \in S : \A y \in S : x.sendTimestamp >= y.sendTimestamp
         IN <<e>> \o NewestFirst(S \ {e})

(* Email.find({ userId: user._id }) *)
EmailsOf(stored, u) == {e \in stored : e.userId = u}

ListEmails(u) ==
    /\ resp' = IF ~requireAuth(u) THEN Unauthorized("list", u, NoId)
               ELSE Found("list", u, NoId, NewestFirst(EmailsOf(emails, u)))
    /\ UNCHANGED <<connectedProviders, emails, events, now, nextId, sends,
                   hits, rateCount, req, callbacks, tokenWrites>>

GetEmail(u, id) ==
    /\ resp' = IF ~requireAuth(u) THEN Unauthorized("get", u, id)
               ELSE IF ~validateObjectId(id) THEN InvalidId("get", u, id)
               ELSE IF FindOwnEmail(emails, id, u) = {}
               THEN EmailNotFound("get", u, id)
               ELSE Found("get", u, id,
                          <<CHOOSE e \in FindOwnEmail(emails, id, u) : TRUE>>)
    /\ UNCHANGED <<connectedProviders, emails, events, now, nextId, sends,
                   hits, rateCount, req, callbacks, tokenWrites>>

(* the handler of DELETE /:id holds no operation on EmailTracking: the rows
   that reference the deleted email stay *)
RowsWithoutEmail(evs, id) == SelectSeq(evs, LAMBDA row : row.emailId # id)

RowsAfterDelete(evs, id) == evs

(* Email.findOneAndDelete({ _id: id, userId: user._id }) *)
DeleteEmail(u, id) ==
    /\ IF ~requireAuth(u)
       THEN /\ emails' = emails
            /\ events' = events
            /\ resp' = Unauthorized("delete", u, id)
       ELSE IF ~validateObjectId(id)
       THEN /\ emails' = emails
            /\ events' = events
            /\ resp' = InvalidId("delete", u, id)
       ELSE IF FindOwnEmail(emails, id, u) = {}
       THEN /\ emails' = emails
            /\ events' = events
            /\ resp' = EmailNotFound("delete", u, id)
       ELSE /\ emails' = emails \ {CHOOSE e \in FindOwnEmail(emails, id, u) : TRUE}
            /\ events' = RowsAfterDelete(events, id)
            /\ resp' = Found("delete", u, id, << >>)
    /\ UNCHANGED <<connectedProviders, now, nextId, sends, hits,
                   rateCount, req, callbacks, tokenWrites>>

(* the analytics of one email: totalOpens, totalClicks and the events *)
EmailAnalyticsData(email, evs) ==
    LET rows == EventsOfEmail(evs, email.id)
    IN [emailId |-> email.id, subject |-> email.subject,
        sentAt |-> email.sendTimestamp, status |-> email.status,
        totalOpens |-> Cardinality({k \in rows : evs[k].eventType = "open"}),
        uniqueOpens |-> Cardinality({evs[k].ipAddress : k \in
                                       {j \in rows : evs[j].eventType = "open"}}),
        totalClicks |-> Cardinality({k \in rows : evs[k].eventType = "click"}),
        uniqueClicks |-> Cardinality({evs[k].ipAddress : k \in
                                       {j \in rows : evs[j].eventType = "click"}}),
        events |-> SelectSeq(evs, LAMBDA row : row.emailId = email.id)]

EmailAnalytics(u, id) ==
    /\ resp' = IF ~requireAuth(u) THEN Unauthorized("emailAnalytics", u, id)
               ELSE IF ~validateObjectId(id) THEN InvalidId("emailAnalytics", u, id)
               ELSE IF FindOwnEmail(emails, id, u) = {}
               THEN EmailNotFound("emailAnalytics", u, id)
               ELSE Found("emailAnalytics", u, id,
                          <<EmailAnalyticsData(
                                CHOOSE e \in FindOwnEmail(emails, id, u) : TRUE,
                                events)>>)
    /\ UNCHANGED <<connectedProviders, emails, events, now, nextId, sends,
                   hits, rateCount, req, callbacks, tokenWrites>>

----------------------------------------------------------------------------
(* the k-th send request mints trackingId 2k - 1 and document id 2k; a
   tracking request may name any of them *)
HitIds == 1..(2 * MaxSends)

UnknownId == 2 * MaxSends

Providers == {"google", "microsoft"}

TrackedRequests == {BaseRequest}

Connect == \E u \in Users, p \in Providers, tok \in Tokens : ConnectProvider(u, p, tok)

(* the send pipeline *)
NextSend ==
    \/ Tick
    \/ Connect
    \/ \E r \in SendRequests : SendRejected(r)
    \/ \E u \in Users, r \in SendRequests : StartSend(u, r)
    \/ SendRecipient(FALSE)
    \/ PersistAndRespond

SpecSend == Init /\ [][NextSend]_vars

(* sends and tracking requests together *)
Next ==
    \/ Tick
    \/ \E u \in Users, tok \in Tokens : ConnectProvider(u, "google", tok)
    \/ \E u \in Users, r \in TrackedRequests : StartSend(u, r)
    \/ SendRecipient(FALSE)
    \/ PersistAndRespond
    \/ \E tid \in HitIds, rcpt \in HitRecipients, ip \in Ips : PixelHit(tid, rcpt, ip)
    \/ \E tid \in HitIds, url \in Urls, rcpt \in HitRecipients, ip \in Ips :
          ClickHit(tid, url, rcpt, ip)
    \/ TrackingFlood(IpV4, UnknownId)
    \/ \E path \in MalformedPaths : MalformedClick(path)

Spec == Init /\ [][Next]_vars

(* a tracked send, the open hits of its recipients, and the analytics *)
NextAnalytics ==
    \/ Tick
    \/ \E u \in Users, tok \in Tokens : ConnectProvider(u, "google", tok)
    \/ \E u \in Users, r \in TrackedRequests : StartSend(u, r)
    \/ SendRecipient(FALSE)
    \/ PersistAndRespond
    \/ \E tid \in HitIds, rcpt \in {A1, A2} : PixelHit(tid, rcpt, IpV4)
    \/ \E u \in Users, id \in HitIds : RecipientAnalytics(u, id)

SpecAnalytics == Init /\ [][NextAnalytics]_vars

(* connections and tokens: concurrent OAuth callbacks, disconnects, and a
   Gmail send during which the provider may ask for a token refresh *)
NextTokens ==
    \/ \E u \in Users, p \in Providers, tok \in Tokens : VerifyLoad(u, p, tok)
    \/ \E cb \in BagToSet(callbacks) : VerifySave(cb)
    \/ \E u \in Users, p \in Providers : DisconnectLoad(u, p)
    \/ \E d \in BagToSet(callbacks) : DisconnectSave(d)
    \/ \E u \in Users : DisconnectInvalid(u, "yahoo")
    \/ \E u \in Users, r \in TrackedRequests : StartSend(u, r)
    \/ \E expired \in BOOLEAN : SendRecipient(expired)
    \/ PersistAndRespond
    \/ \E w \in tokenWrites : updateUserTokens(w)

SpecTokens == Init /\ [][NextTokens]_vars

(* two owners: their sends, and the reads and deletes of stored emails *)
OwnerSends == MaxSends + 1

(* the k-th send stores its email under id 2k; id 1 is no email *)
OwnerIds == {1} \cup {2 * k : k \in 1..OwnerSends}

LinkedRequest == [BaseRequest EXCEPT !.body = <<Text("see"), Link(UrlAbs)>>]

NextOwners ==
    \/ \E u \in Users, tok \in Tokens : ConnectProvider(u, "google", tok)
    \/ \E u \in Accounts : StartSendWithin(u, LinkedRequest, OwnerSends)
    \/ SendRecipient(FALSE)
    \/ PersistAndRespond
    \/ \E u \in Accounts \cup {Anonymous} : ListEmails(u)
    \/ \E u \in Accounts, id \in OwnerIds : GetEmail(u, id)
    \/ \E u \in Accounts, id \in OwnerIds : DeleteEmail(u, id)
    \/ \E u \in Accounts, id \in OwnerIds : EmailAnalytics(u, id)
    \/ \E u \in Users \cup {Anonymous} : DeleteEmail(u, NoId)

SpecOwners == Init /\ [][NextOwners]_vars

(* the rows of EmailTracking under every operation that runs beside them:
   a send, tracking hits, analytics, the deletion of the email, and
   connection changes *)
NextRows ==
    \/ Tick
    \/ \E u \in Users, tok \in Tokens : ConnectProvider(u, "google", tok)
    \/ \E u \in Users : Disconnect(u, "google")
    \/ \E u \in Users, r \in TrackedRequests : StartSend(u, r)
    \/ SendRecipient(FALSE)
    \/ PersistAndRespond
    \/ \E tid \in HitIds : PixelHit(tid, A1, IpV4)
    \/ \E tid \in HitIds : ClickHit(tid, UrlAbs, A1, IpV4)
    \/ \E u \in Users, id \in HitIds : DeleteEmail(u, id)
    \/ \E u \in Users, id \in HitIds : EmailAnalytics(u, id)
    \/ \E u \in Users, id \in HitIds : RecipientAnalytics(u, id)

SpecRows == Init /\ [][NextRows]_vars

----------------------------------------------------------------------------
(* Vocabulary of the properties *)

Successes(attempts) == Cardinality({i \in 1..Len(attempts) : attempts[i].ok})

RecipientCount(e) == Len(e.to) + Len(e.cc) + Len(e.bcc)

(* the step in which POST /send saves the document and answers *)
PersistStep == req.pc = "loop" /\ req'.pc = "idle"

SavedNow == emails' \ emails

LoopFinished == req.pc = "loop" /\ req.i > Len(allRecipients(req.data))

----------------------------------------------------------------------------
(* C1: sentCount, as returned by sendEmailWithTracking and as echoed in the
   response of POST /send, is the number of recipients whose transport send
   succeeded, for every pattern of per-recipient outcomes; the saved Email
   has status "sent" exactly when that number is positive, "failed"
   otherwise. *)
C1_SentCountIsSuccesses ==
    /\ [](req.pc = "loop" => req.sentCount = Successes(req.attempts))
    /\ [][PersistStep =>
            /\ resp'.sentCount # NoCount => resp'.sentCount = Successes(req.attempts)
            /\ \A e \in SavedNow :
                  /\ e.status = "sent" <=> Successes(req.attempts) > 0
                  /\ e.status = "failed" <=> Successes(req.attempts) = 0]_vars

C1_Witness ==
    /\ resp.kind = "send"
    /\ resp.sentCount = 1
    /\ \E e \in emails : /\ e.trackingId = resp.trackingId
                         /\ RecipientCount(e) = 2
                         /\ e.status = "sent"

(* C2: a failed send does not end the loop: when the loop is over, one
   transport send has been attempted for every entry of the flattened
   recipient list, in order, whatever the earlier outcomes were. *)
C2_OneAttemptPerRecipient ==
    /\ req.pc = "loop" => Len(req.attempts) = req.i - 1
    /\ LoopFinished =>
          /\ Len(req.attempts) = Len(allRecipients(req.data))
          /\ \A k \in 1..Len(req.attempts) :
                req.attempts[k].recipient = allRecipients(req.data)[k]

C2_Witness ==
    /\ LoopFinished
    /\ Len(req.attempts) = 3
    /\ ~req.attempts[1].ok
    /\ req.attempts[2].ok
    /\ ~req.attempts[3].ok

(* C3: when every recipient's send fails, the status is "failed", sentCount
   is 0, and the error saved on the Email and returned to the caller is the
   failure message of the first recipient. *)
C3_FirstFailureIsRecorded ==
    [][(PersistStep /\ Successes(req.attempts) = 0) =>
          /\ resp'.error = req.attempts[1].msg
          /\ \A e \in SavedNow : /\ e.status = "failed"
                                 /\ e.error = req.attempts[1].msg]_vars

(* C4: when at least one recipient's send succeeds, the saved Email has
   status "sent" and an empty error field, and the reported sentCount is the
   number of successes: failures of single recipients reach the error field
   only when all of them fail. *)
C4_PartialFailureLeavesErrorEmpty ==
    [][(PersistStep /\ Successes(req.attempts) > 0) =>
          \A e \in SavedNow : /\ e.status = "sent"
                              /\ e.error = NoText
                              /\ resp'.status = 200
                              /\ resp'.sentCount = Successes(req.attempts)]_vars

C4_Witness ==
    /\ resp.kind = "send"
    /\ resp.sentCount = 2
    /\ \E e \in emails : /\ e.trackingId = resp.trackingId
                         /\ RecipientCount(e) = 3
                         /\ e.status = "sent"
                         /\ e.error = NoText

(* C5: every dispatched send request leaves exactly one Email for its
   trackingId when it completes; in particular, when mail was submitted to
   the provider, the Email of the request is stored once the request has
   completed. *)
C5_ExactlyOneEmailPerDispatch ==
    [][(PersistStep /\ \E k \in 1..Len(req.attempts) : req.attempts[k].api = "accepted") =>
          /\ \A e \in emails : e.trackingId # req.trackingId
          /\ Cardinality({e \in emails' : e.trackingId = req.trackingId}) = 1]_vars

----------------------------------------------------------------------------
(* the step in which a tracking request is served *)
HitStep(kind) == hits' = hits + 1 /\ resp'.kind = kind

(* the Emails that carry the trackingId of the request being served *)
Matching == {e \in emails : e.trackingId = resp'.trackingId}

Elapsed == now - (CHOOSE e \in Matching : TRUE).sendTimestamp

(* C6: an open hit on a known trackingId writes no row while
   elapsed < cooldown and exactly one row of type "open" once
   elapsed >= cooldown; in both cases the answer is the 1x1 PNG.  (Requests
   refused by the rate limiter are left aside.) *)
C6_OpenHitCooldown ==
    [][(HitStep("pixel") /\ Matching # {} /\ resp'.status # 429) =>
          /\ Elapsed < TRACKING_COOLDOWN_SECONDS => events' = events
          /\ Elapsed >= TRACKING_COOLDOWN_SECONDS =>
                /\ Len(events') = Len(events) + 1
                /\ SubSeq(events', 1, Len(events)) = events
                /\ events'[Len(events')].eventType = "open"
          /\ resp'.status = 200
          /\ resp'.body = PNG]_vars

(* C7: a click hit on a known trackingId that arrives inside the cooldown
   window is suppressed: it writes no row (that it is redirected all the
   same is the subject of C8). *)
C7_ClickSuppressedInCooldown ==
    [][(HitStep("click") /\ Matching # {} /\ Elapsed < TRACKING_COOLDOWN_SECONDS) =>
          events' = events]_vars

(* C8: every click hit is answered with a redirect to the decoded
   destination URL, whatever happened on the tracking side: recorded,
   suppressed, unknown trackingId, or the write rejected by the TrackingEvent
   validators.  (Requests refused by the rate limiter are left aside.) *)
C8_ClickAlwaysRedirects ==
    (resp.kind = "click" /\ resp.status # 429) =>
        resp.status = 302 /\ resp.location = resp.url

(* C9: every request to the open beacon is answered with status 200 and the
   1x1 PNG; the answer does not depend on the success of the tracking write.
   (Requests refused by the rate limiter are left aside: the property fails
   without them.) *)
C9_PixelAlways200 ==
    (resp.kind = "pixel" /\ resp.status # 429) =>
        resp.status = 200 /\ resp.body = PNG

(* C10, as claimed: a hit for a trackingId without Email writes no row and
   changes no stored document; the beacon is answered with the pixel and the
   click with a redirect to the destination URL. *)
C10_UnknownIdIsInert ==
    [][(hits' = hits + 1 /\ Matching = {}) =>
          /\ events' = events
          /\ emails' = emails
          /\ connectedProviders' = connectedProviders
          /\ resp'.kind = "pixel" => resp'.status = 200 /\ resp'.body = PNG
          /\ resp'.kind = "click" =>
                resp'.status = 302 /\ resp'.location = resp'.url]_vars

(* C10, amended: a hit for a trackingId without Email writes no row and
   changes no stored document; it is answered with the pixel, or with a
   redirect to the destination URL, unless the rate limiter has counted more
   than TRACKING_RATE_MAX requests of its client, and then with 429. *)
C10_UnknownIdIsInertUnlessLimited ==
    [][(hits' = hits + 1 /\ Matching = {}) =>
          /\ events' = events
          /\ emails' = emails
          /\ connectedProviders' = connectedProviders
          /\ resp'.status = 429 =>
                \E ip \in Ips : rateCount'[ip] > TRACKING_RATE_MAX
          /\ (resp'.kind = "pixel" /\ resp'.status # 429) =>
                resp'.status = 200 /\ resp'.body = PNG
          /\ (resp'.kind = "click" /\ resp'.status # 429) =>
                resp'.status = 302 /\ resp'.location = resp'.url]_vars

C10_Witness ==
    /\ resp.kind = "click"
    /\ resp.status = 302
    /\ resp.location = UrlAbs
    /\ emails # {}
    /\ \A e \in emails : e.trackingId # resp.trackingId /\ now - e.sendTimestamp >= TRACKING_COOLDOWN_SECONDS
    /\ events = << >>
    /\ hits = MaxHits

----------------------------------------------------------------------------
(* the open rows of Email id that were written for address addr of the
   stored recipient list: the link given to a recipient carries the address
   as it was written in the request, the stored list carries it as the
   pre-save hook normalized it *)
OpenRowsOf(id, addr) ==
    {k \in 1..Len(events) : /\ events[k].emailId = id
                            /\ events[k].eventType = "open"
                            /\ NormalizeAddress(events[k].recipientEmail) = addr}

(* C11: open hits are never de-duplicated: the openCount that the
   per-recipient analytics report for a recipient of an Email is the number
   of open rows written for that recipient (one per hit outside the
   cooldown window), also for an address written with upper-case letters in
   the request. *)
C11_OpenCountIsHitCount ==
    (resp.kind = "analytics" /\ resp.status = 200) =>
        \A k \in 1..Len(resp.recipients) :
            resp.recipients[k].openCount =
                Cardinality(OpenRowsOf(resp.emailId, resp.recipients[k].email))

----------------------------------------------------------------------------
(* the first attempt of the loop that succeeded *)
FirstSuccess(attempts) ==
    CHOOSE k \in 1..Len(attempts) :
        attempts[k].ok /\ \A j \in 1..(k - 1) : ~attempts[j].ok

(* C12: the messageId saved on an Email is the id that the provider
   transport returned for the earliest recipient, in the order to, cc, bcc,
   whose send succeeded; when no send succeeded, no message id is saved. *)
C12_MessageIdIsFirstSuccess ==
    [][PersistStep =>
          \A e \in SavedNow :
              IF Successes(req.attempts) > 0
              THEN e.messageId = req.attempts[FirstSuccess(req.attempts)].messageId
              ELSE e.messageId = NoText]_vars

(* a request as the claim describes the rejected ones *)
MalformedRequest(r) ==
    \/ Len(r.to) = 0
    \/ \E a \in {r.to[k] : k \in 1..Len(r.to)} \cup {r.cc[k] : k \in 1..Len(r.cc)}
                \cup {r.bcc[k] : k \in 1..Len(r.bcc)} : ~RequestEmailRegex(a)
    \/ r.subject = ""
    \/ r.body = << >>
    \/ r.provider \notin {"gmail", "outlook"}

(* C13: a send request with a malformed address in to, cc or bcc, an empty
   to list, an empty subject or body, or a provider other than gmail and
   outlook never reaches the dispatch loop, and the step that answers it
   with 400 invokes no transport, mints no trackingId and saves no Email. *)
C13_RejectedBeforeDispatch ==
    /\ [](req.pc = "loop" => ~MalformedRequest(req.data))
    /\ [](\A e \in emails : Len(e.to) > 0 /\ e.subject # ""
                              /\ e.provider \in {"gmail", "outlook"})
    /\ [][(resp' # resp /\ resp'.kind = "send" /\ resp'.status = 400) =>
            /\ req' = req
            /\ nextId' = nextId
            /\ emails' = emails
            /\ sends' = sends]_vars

C13_Witness ==
    /\ resp.kind = "send"
    /\ resp.status = 400
    /\ nextId = 3
    /\ Cardinality(emails) = 1

(* C17: an Outlook send counts as a success only when the message was
   submitted to the send-mail API of the provider and accepted by it. *)
C17_OutlookSuccessMeansAccepted ==
    (req.pc = "loop" /\ req.data.provider = "outlook") =>
        \A k \in 1..Len(req.attempts) :
            req.attempts[k].ok => req.attempts[k].api = "accepted"

----------------------------------------------------------------------------
(* C18: any two entries of the flattened recipient list of one dispatch,
   duplicates of one address included, are sent different content. *)
C18_ContentDiffersPerEntry ==
    req.pc = "loop" =>
        \A j, k \in 1..Len(req.attempts) :
            j # k => req.attempts[j].content # req.attempts[k].content

(* C20: when the request carries an HTML body, the HTML part sent to a
   recipient is that HTML body with the open beacon inserted before its
   closing body tag, or appended when there is none (its links rewritten or
   not); the wrapper around the plain text is sent only when the request
   carries no HTML body. *)
C20_SuppliedHtmlIsKept ==
    (req.pc = "loop" /\ req.data.htmlBody # NoHtml) =>
        \A k \in 1..Len(req.attempts) :
            LET rcpt == req.attempts[k].recipient
                sent == req.attempts[k].content.htmlBody
            IN /\ \/ sent = addEmailTrackingForRecipient(req.data.htmlBody,
                                   req.trackingId, rcpt, TRUE)
                  \/ sent = addEmailTrackingForRecipient(
                                   addClickTrackingForRecipient(req.data.htmlBody,
                                       req.trackingId, rcpt),
                                   req.trackingId, rcpt, TRUE)
               /\ sent # HtmlWrapper(req.attempts[k].content.body,
                                     req.trackingId, rcpt)

----------------------------------------------------------------------------
(* C19: a click request with a malformed tracking path, a segment missing
   or not decodable, is answered with a redirect to a default location, not
   with an error. *)
C19_MalformedClickRedirects ==
    resp.kind = "malformed" => resp.status = 302 /\ resp.location # NoUrl

----------------------------------------------------------------------------
(* C14: whatever the interleaving of connect callbacks, reconnects,
   disconnects and token refreshes, a user holds at most one connection per
   provider. *)
C14_OneConnectionPerProvider ==
    \A u \in Users, p \in Providers :
        Cardinality({k \in 1..Len(connectedProviders[u]) :
                        connectedProviders[u][k].provider = p}) <= 1

(* C15: when a Gmail send has refreshed the access token, the new token is
   written to the connection before sendGmailEmail returns: once the send
   has returned, no write of a refreshed token is outstanding. *)
C15_RefreshPersistedBeforeReturn == tokenWrites = {}

(* C16: after a refresh during the send to recipient i, the sends of the
   same dispatch to the recipients after i present the refreshed access
   token to the provider. *)
C16_LaterSendsUseRefreshedToken ==
    req.pc = "loop" =>
        \A i, j \in 1..Len(req.attempts) :
            (i < j /\ req.attempts[i].refreshed # NoText
                   /\ req.attempts[j].token # NoText) =>
                req.attempts[j].token = req.attempts[i].refreshed

----------------------------------------------------------------------------
(* Order of the per-recipient sends *)

Occurrences(a, l) == Cardinality({i \in 1..Len(l) : l[i] = a})

(* C21: the recipients are attempted one after the other in the order to, cc,
   bcc, each list in its given order and without de-duplication: every step
   of the loop adds exactly one finished send, for the next entry of that
   order, and when the loop is left an address that occurs k times in
   to+cc+bcc has had k transport sends *)
C21_SequentialInListOrder ==
    [][/\ (req.pc = "loop" /\ req'.pc = "loop" /\ req' # req)
            => LET n == Len(req.attempts)
               IN /\ Len(req'.attempts) = n + 1
                  /\ SubSeq(req'.attempts, 1, n) = req.attempts
                  /\ req'.attempts[n + 1].ok \in BOOLEAN
                  /\ req'.attempts[n + 1].recipient =
                        (req.data.to \o req.data.cc \o req.data.bcc)[n + 1]
       /\ PersistStep
            => \A a \in {A1, A2, APlus, Bad} :
                  Occurrences(a, [k \in 1..Len(req.attempts) |->
                                     req.attempts[k].recipient])
                     = Occurrences(a, req.data.to) + Occurrences(a, req.data.cc)
                          + Occurrences(a, req.data.bcc)]_vars

(* the address of to is sent to again as the bcc entry, after the cc entry *)
C21_Witness ==
    /\ LoopFinished
    /\ Len(req.attempts) = 3
    /\ req.attempts[1].recipient = A1
    /\ req.attempts[2].recipient = A2
    /\ req.attempts[3].recipient = A1
    /\ req.data.bcc = <<A1>>

----------------------------------------------------------------------------
(* One recipient per message *)

(* createGmailMessage: the address headers of the MIME message; Cc and Bcc
   are written only for a non-empty list *)
createGmailMessage(emailData) ==
    [To |-> emailData.to,
     Cc |-> IF Len(emailData.cc) > 0 THEN emailData.cc ELSE << >>,
     Bcc |-> IF Len(emailData.bcc) > 0 THEN emailData.bcc ELSE << >>]

(* C22: every message handed to a provider transport names exactly one
   recipient: to is the single current recipient, cc and bcc are empty, and
   the address headers carry no other recipient of the request *)
C22_OneRecipientPerMessage ==
    req.pc = "loop" =>
        \A k \in 1..Len(req.attempts) :
            LET m == req.attempts[k].content
            IN /\ m.to = <<req.attempts[k].recipient>>
               /\ m.cc = << >>
               /\ m.bcc = << >>
               /\ createGmailMessage(m) =
                     [To |-> <<req.attempts[k].recipient>>, Cc |-> << >>,
                      Bcc |-> << >>]

C22_Witness ==
    /\ req.pc = "loop"
    /\ Len(req.attempts) = 3
    /\ req.data.cc = <<A2>>
    /\ req.data.bcc = <<A1>>
    /\ req.attempts[2].ok
    /\ req.attempts[2].content.to = <<A2>>

----------------------------------------------------------------------------
(* The trackingId of a send request *)

(* the tracking segments (open beacon, click URL) of one message *)
TrackingSegments(m) ==
    {m.body[k] : k \in {j \in 1..Len(m.body) : m.body[j].kind \in {"pixel", "click"}}}
    \cup {m.htmlBody[k] : k \in {j \in 1..Len(m.htmlBody) :
                                     m.htmlBody[j].kind \in {"pixel", "click"}}}

(* C23: one trackingId is minted per send request and kept for the whole
   dispatch; every per-recipient variant carries an open beacon and a click
   URL, and all its tracking URLs embed that trackingId; the stored
   SentMessage has that trackingId; no two stored SentMessages share one *)
C23_OneTrackingIdPerDispatch ==
    [][/\ (req.pc = "idle" /\ req'.pc = "loop")
            => /\ req'.trackingId = nextId
               /\ \A e \in emails : e.trackingId # req'.trackingId
       /\ (req.pc = "loop" /\ req'.pc = "loop")
            => /\ req'.trackingId = req.trackingId
               /\ \A k \in 1..Len(req'.attempts) :
                     LET segs == TrackingSegments(req'.attempts[k].content)
                     IN /\ \E g \in segs : g.kind = "pixel"
                        /\ \E g \in segs : g.kind = "click"
                        /\ \A g \in segs : g.trackingId = req.trackingId
       /\ PersistStep => \A e \in SavedNow : e.trackingId = req.trackingId
       /\ \A e1, e2 \in emails' :
             e1.trackingId = e2.trackingId => e1 = e2]_vars

(* two dispatches, of two owners, are stored, the first one delivered *)
C23_Witness ==
    /\ req.pc = "idle"
    /\ \E e1, e2 \in emails :
          /\ e1.userId = "u1" /\ e2.userId = "u2"
          /\ e1.status = "sent"
          /\ e1.trackingId # e2.trackingId
          /\ resp.kind = "send" /\ resp.trackingId = e2.trackingId

----------------------------------------------------------------------------
(* Ownership of stored emails *)

(* C30: a get, delete or analytics request by a user for an email of another
   owner answers 404 and leaves the stored emails as they are; an email
   leaves the store only by a delete request of its owner; the list
   returns exactly the emails of the caller *)
C30_OwnerIsolation ==
    [][/\ (/\ resp'.kind \in {"get", "delete", "emailAnalytics"}
           /\ \E e \in emails : e.id = resp'.emailId /\ e.userId # resp'.caller)
            => resp'.status = 404 /\ emails' = emails
       /\ \A e \in emails \ emails' :
             /\ resp'.kind = "delete"
             /\ resp'.status = 200
             /\ resp'.caller = e.userId
             /\ resp'.emailId = e.id
       /\ (resp'.kind = "list" /\ resp'.status = 200)
            => /\ {resp'.data[k] : k \in 1..Len(resp'.data)}
                     = {e \in emails' : e.userId = resp'.caller}
               /\ Len(resp'.data)
                     = Cardinality({e \in emails' : e.userId = resp'.caller})]_vars

(* u2 asked to delete an email of u1 while owning one too *)
C30_Witness ==
    /\ resp.kind = "delete"
    /\ resp.caller = "u2"
    /\ resp.status = 404
    /\ \E e \in emails : e.id = resp.emailId /\ e.userId = "u1"
    /\ \E e \in emails : e.userId = "u2"

----------------------------------------------------------------------------
(* The rows of EmailTracking *)

(* C24: the rows of EmailTracking are append-only: whatever the step (a
   tracking hit, an analytics read, the deletion of the email they
   reference, a connection change, a send), the rows stored before it are
   still there, unchanged and in place *)
C24_RowsAppendOnly ==
    [][/\ Len(events') >= Len(events)
       /\ SubSeq(events', 1, Len(events)) = events]_vars

(* the email was deleted after a hit on it had been recorded *)
C24_Witness ==
    /\ resp.kind = "delete"
    /\ resp.status = 200
    /\ emails = {}
    /\ \E k \in 1..Len(events) : events[k].emailId = resp.emailId

(* C27: a tracking hit that names the trackingId of the dispatch in progress
   finds no stored email and writes no row; sendTimestamp is the time at
   which the document is built after the loop, not earlier than any
   recipient's own send, and an open on the stored email is recorded only
   when the cooldown has elapsed since that sendTimestamp *)
C27_HitDuringDispatch ==
    [][/\ (/\ req.pc = "loop"
           /\ hits' = hits + 1
           /\ resp'.kind \in {"pixel", "click"}
           /\ resp'.trackingId = req.trackingId)
            => /\ \A e \in emails : e.trackingId # req.trackingId
               /\ events' = events
       /\ PersistStep
            => \A e \in SavedNow :
                  /\ e.sendTimestamp = now
                  /\ \A k \in 1..Len(req.attempts) :
                        req.attempts[k].at <= e.sendTimestamp
       /\ (HitStep("pixel") /\ events' # events)
            => \A e \in emails :
                  e.trackingId = resp'.trackingId
                     => now - e.sendTimestamp >= TRACKING_COOLDOWN_SECONDS]_vars

(* the open beacon of a recipient already sent to was requested during the
   loop, later than that recipient's own send *)
C27_Witness ==
    /\ LoopFinished
    /\ req.attempts[1].ok
    /\ resp.kind = "pixel"
    /\ resp.status = 200
    /\ resp.trackingId = req.trackingId
    /\ resp.at > req.attempts[1].at
    /\ now > resp.at
    /\ events = << >>

(* C28: a row is written only for an email that is stored at that moment,
   carries that email's id and trackingId and the server's time; an "open"
   row is at least the cooldown later than the sendTimestamp of its email *)
C28_RowsReferenceTheirEmail ==
    [][\A k \in (Len(events) + 1)..Len(events') :
          /\ events'[k].timestamp = now
          /\ \E e \in emails :
                /\ e.id = events'[k].emailId
                /\ e.trackingId = events'[k].trackingId
                /\ events'[k].eventType = "open"
                      => events'[k].timestamp
                            >= e.sendTimestamp + TRACKING_COOLDOWN_SECONDS]_vars

(* an open and a click on a stored email are recorded *)
C28_Witness ==
    \E e \in emails, k, l \in 1..Len(events) :
        /\ events[k].eventType = "open"
        /\ events[l].eventType = "click"
        /\ events[k].emailId = e.id
        /\ events[l].emailId = e.id
        /\ events[k].timestamp >= e.sendTimestamp + TRACKING_COOLDOWN_SECONDS

----------------------------------------------------------------------------
(* A dispatch without a usable connection *)

AccountOf(provider) == IF provider = "gmail" THEN "google" ELSE "microsoft"

Unconnected(userDoc, provider) ==
    \/ \A i \in 1..Len(userDoc) : userDoc[i].provider # AccountOf(provider)
    \/ \E i \in 1..Len(userDoc) :
          /\ userDoc[i].provider = AccountOf(provider)
          /\ \A j \in 1..(i - 1) : userDoc[j].provider # AccountOf(provider)
          /\ userDoc[i].accessToken = ""

(* C29: a dispatch by a user without a connection (or without an access
   token) for the provider of the request hands nothing to any provider:
   every recipient's send fails, sentCount is 0, one Email with status
   "failed" is stored and the answer is a failure *)
C29_UnconnectedDispatchFails ==
    [][(PersistStep /\ Unconnected(req.userDoc, req.data.provider)) =>
          /\ Len(req.attempts) = RecipientCount(req.data)
          /\ \A k \in 1..Len(req.attempts) :
                ~req.attempts[k].ok /\ req.attempts[k].api = "none"
          /\ req.sentCount = 0
          /\ resp'.kind = "send"
          /\ resp'.status = 500
          /\ Cardinality(SavedNow) = 1
          /\ \A e \in SavedNow :
                e.status = "failed" /\ e.trackingId = req.trackingId]_vars

----------------------------------------------------------------------------
(* Disconnects and token refreshes beside other requests *)

(* the number of disconnect requests between their load and their save *)
DisconnectsInFlight(B) ==
    BagCardinality([e \in {x \in BagToSet(B) : x.kind = "disconnect"} |-> B[e]])

DisconnectSaveStep == DisconnectsInFlight(callbacks') < DisconnectsInFlight(callbacks)

(* C25: a disconnect of provider P that is answered with success leaves no
   connection to P and leaves every other stored connection of the user as
   it was just before the save, whatever connects or token refreshes ran
   since the request loaded the user; a disconnect with another provider
   name changes nothing *)
C25_DisconnectLeavesOthers ==
    [][/\ (DisconnectSaveStep /\ resp'.status = 200)
            => \A u \in Users :
                  \/ connectedProviders'[u] = connectedProviders[u]
                  \/ connectedProviders'[u] =
                        SelectSeq(connectedProviders[u],
                                  LAMBDA c : c.provider # resp'.provider)
       /\ (resp' # resp /\ resp'.kind = "disconnect" /\ resp'.status = 400)
            => connectedProviders' = connectedProviders]_vars

(* the step in which a refreshed token is written to the store *)
RefreshWriteStep ==
    \/ tokenWrites' # tokenWrites /\ tokenWrites' \subseteq tokenWrites
    \/ /\ req.pc = "loop" /\ req'.pc = "loop"
       /\ Len(req'.attempts) > Len(req.attempts)
       /\ connectedProviders' # connectedProviders

(* C26: the write of a refreshed Google token changes the google connection
   only: the array keeps its length, no entry without a provider appears,
   and an entry that changes is a google connection *)
C26_RefreshTouchesOwnConnection ==
    [][RefreshWriteStep =>
          \A u \in Users :
             /\ Len(connectedProviders'[u]) = Len(connectedProviders[u])
             /\ \A i \in 1..Len(connectedProviders[u]) :
                   connectedProviders'[u][i] # connectedProviders[u][i]
                      => /\ connectedProviders[u][i].provider = "google"
                         /\ connectedProviders'[u][i].provider = "google"]_vars

============================================================================
